---------------------------- MODULE Spec2Model ----------------------------
(***************************************************************************)
(* Model of src/src/lib.rs (crate finalspark_rs): LiveMEA::record_sample   *)
(* and LiveMEA::record_n_samples, the Socket.IO session they drive over a  *)
(* WebSocket, and the decoding of the binary payload into a LiveData.      *)
(*                                                                         *)
(* One call of the public API is modelled from its start to its return.    *)
(* Every await of record_sample is a position (pc); the peer and the       *)
(* transport are the environment: they choose the outcome of every         *)
(* connect, next(), send() and close().                                    *)
(*                                                                         *)
(* A text is a sequence of one-character strings.  A binary payload is a   *)
(* sequence of bytes; an f32 is represented by its bit pattern (the        *)
(* little-endian reading of its four bytes).                               *)
(***************************************************************************)
EXTENDS Integers, Sequences, FiniteSets, TLC

\* ------------------------------------------------------------------ sizes

\* Electrodes in the block of one MEA (lib.rs: the literal 32).
ELECTRODES == 32

\* Electrodes in a payload carrying all the MEAs (lib.rs: the literal 128).
ALL_ELECTRODES == 128

\* Readings per electrode.  lib.rs has the literal 4096; the model keeps the
\* layout and scales the row length down.
SamplesPerElectrode == 2

\* Largest mea_id a caller passes (the valid ones are 1..4).
MaxMeaId == 5

\* Largest n passed to record_n_samples.
MaxN == 2

\* Frames the peer delivers in one session, at most.
MaxFrames == 4

\* Payload contents differ by a tag.
Tags == { 0, 1 }

\* ------------------------------------------------------------------ texts

StartsWith(text, c) == Len(text) >= 1 /\ text[1] = c

Tail1(text) == IF Len(text) = 0 THEN << >> ELSE SubSeq(text, 2, Len(text))

T_open      == << "0", "{", "}" >>
T_openBare  == << "0" >>
T_ping      == << "2" >>
T_connAck   == << "4", "0" >>

\* The texts the peer may send: the open packet, an open packet without its
\* JSON body, the ping, and the acknowledgement of the namespace connect.
PeerTexts == { T_open, T_openBare, T_ping, T_connAck }

\* serde_json::from_str::<SocketIOHandshake>(body): SocketIOHandshake has no
\* fields, so a JSON object parses; the empty text and a bare word do not.
\* Decided here for the bodies of PeerTexts.
handshake_parses(body) ==
    /\ Len(body) >= 2
    /\ body[1] = "{"
    /\ body[Len(body)] = "}"
    /\ \A k \in 2..(Len(body) - 1) : body[k] = " "

\* u32 Display, as format!("{}", v) writes it.
DigitChar(d) ==
    CASE d = 0 -> "0" [] d = 1 -> "1" [] d = 2 -> "2" [] d = 3 -> "3"
      [] d = 4 -> "4" [] d = 5 -> "5" [] d = 6 -> "6" [] d = 7 -> "7"
      [] d = 8 -> "8" [] d = 9 -> "9"

RECURSIVE fmt_u32(_)
fmt_u32(v) == IF v < 10 THEN << DigitChar(v) >>
              ELSE fmt_u32(v \div 10) \o << DigitChar(v % 10) >>

\* mea_index without the shift to the zero-based index of the wire.
mea_index_unshifted(mea_id) == mea_id

\* let mea_index = mea_id - 1;
mea_index_of(mea_id) == mea_id - 1

\* format!("42[\"meaid\",{}]", mea_index)
mea_msg(mea_index) ==
    << "4", "2", "[", "\"", "m", "e", "a", "i", "d", "\"", "," >>
        \o fmt_u32(mea_index) \o << "]" >>

\* Message::Text("40".to_string())
connect_msg == << "4", "0" >>

\* Message::Text("3".to_string())
pong_msg == << "3" >>

\* text.starts_with("0") of the handshake arm
is_open_packet(text) == StartsWith(text, "0")

\* The ping test looking for the pong marker instead.
is_ping_marker3(text) == StartsWith(text, "3")

\* text.starts_with("2") of the receive loop
is_ping(text) == StartsWith(text, "2")


\* ----------------------------------------------------------------- frames

\* What ws_stream.next().await yields: Some(Ok(Message)), Some(Err(e)) or None.
Item(type, text, tag, nbytes) ==
    [type |-> type, text |-> text, tag |-> tag, nbytes |-> nbytes]

NoFrame   == Item("NoFrame", << >>, 0, 0)
StreamEnd == Item("None", << >>, 0, 0)
StreamErr == Item("Err", << >>, 0, 0)

TextFrames == { Item("Text", t, 0, 0) : t \in PeerTexts }

\* Message::Ping, Message::Pong (and Message::Frame): the `_` arms.
ControlFrames == { Item("Ping", << >>, 0, 0), Item("Pong", << >>, 0, 0) }

CloseFrame == Item("Close", << >>, 0, 0)

\* Byte lengths of the two accepted payloads.
SingleBytes == 4 * ELECTRODES * SamplesPerElectrode
FullBytes   == 4 * ALL_ELECTRODES * SamplesPerElectrode

\* Other byte lengths the peer may send: an empty payload, one reading too
\* many, and a length that is no multiple of 4.
OtherBytes == { 0, SingleBytes + 2, SingleBytes + 4 }

BinaryFrames ==
    { Item("Binary", << >>, t, b) : t \in Tags, b \in { SingleBytes, FullBytes } }
        \cup { Item("Binary", << >>, 0, b) : b \in OtherBytes }

Frames == TextFrames \cup ControlFrames \cup { CloseFrame } \cup BinaryFrames

StreamItems == Frames \cup { StreamEnd, StreamErr }

\* Byte j (from 0) of the payload with tag `tag`: reading k = j \div 4 holds
\* k in its two low bytes and the tag in the third, so that all the readings
\* of a payload differ and payloads of different tags differ everywhere.
PayloadByte(tag, j) ==
    LET k == j \div 4
        b == j % 4
    IN  CASE b = 0 -> k % 256
          [] b = 1 -> (k \div 256) % 256
          [] b = 2 -> tag
          [] b = 3 -> 0

\* The Vec<u8> of Message::Binary(buffer): its length, and the tag that fixes
\* its bytes.
buffer_of(frame) == [len |-> frame.nbytes, tag |-> frame.tag]

\* buffer[j], j from 0.
byte_at(buffer, j) == PayloadByte(buffer.tag, j)

\* --------------------------------------------------------------- decoding

\* buffer.chunks(size): the number of chunks, ...
chunks_count(buffer, size) == (buffer.len + size - 1) \div size

\* ... the length of chunk c (from 0): size, but for a shorter last chunk
\* when the length is no multiple of size, ...
chunk_len(buffer, size, c) ==
    IF (c + 1) * size <= buffer.len THEN size ELSE buffer.len - c * size

\* ... and chunk c itself.
chunk(buffer, size, c) ==
    [k \in 1..chunk_len(buffer, size, c) |-> byte_at(buffer, c * size + k - 1)]

\* chunk.try_into(): Ok for a slice of exactly 4 bytes.
try_into_ok(len) == len = 4

\* f32::from_ne_bytes on a little-endian target, the f32 named by its bits.
from_ne_bytes(bytes) ==
    bytes[1] + 256 * bytes[2] + 65536 * bytes[3] + 16777216 * bytes[4]

\* .map(|chunk| f32::from_ne_bytes(chunk.try_into().unwrap())): unwrap panics
\* on a chunk that is not 4 bytes long.
unwrap_panics(buffer) ==
    \E c \in 0..(chunks_count(buffer, 4) - 1) : ~try_into_ok(chunk_len(buffer, 4, c))

\* .collect::<Vec<f32>>(): raw.len() and raw[k], k from 0.
raw_len(buffer) == chunks_count(buffer, 4)

raw_at(buffer, k) == from_ne_bytes(chunk(buffer, 4, k))

\* The outcome of `let start_idx = if ... else if ... else { return Err(..) }`:
\* the index, or SizeMismatch for the early return.
SizeMismatch == -1

\* start_idx with the row length left out of the block offset.
start_idx_no_row_len(len, mea_index) ==
    IF len = ELECTRODES * SamplesPerElectrode THEN 0
    ELSE IF len = ALL_ELECTRODES * SamplesPerElectrode
         THEN mea_index * ELECTRODES
         ELSE SizeMismatch

\* start_idx applying the block offset to a single-MEA payload too.
start_idx_always_offset(len, mea_index) ==
    IF len = ELECTRODES * SamplesPerElectrode \/ len = ALL_ELECTRODES * SamplesPerElectrode
    THEN mea_index * ELECTRODES * SamplesPerElectrode
    ELSE SizeMismatch

\* start_idx taking any payload of at least one MEA's readings.
start_idx_at_least(len, mea_index) ==
    IF len = ALL_ELECTRODES * SamplesPerElectrode
    THEN mea_index * ELECTRODES * SamplesPerElectrode
    ELSE IF len >= ELECTRODES * SamplesPerElectrode THEN 0
         ELSE SizeMismatch

start_idx(len, mea_index) ==
    IF len = ELECTRODES * SamplesPerElectrode THEN 0
    ELSE IF len = ALL_ELECTRODES * SamplesPerElectrode
         THEN mea_index * ELECTRODES * SamplesPerElectrode
         ELSE SizeMismatch

\* raw[lo..hi] panics unless lo <= hi <= raw.len().
slice_in_bounds(len, lo, hi) == lo <= hi /\ hi <= len

\* raw[lo..hi].to_vec(): indices from 0, hi excluded.
slice(buffer, lo, hi) == [k \in 1..(hi - lo) |-> raw_at(buffer, lo + k - 1)]

\* The electrode index range (0..32) of the map at lib.rs:203.
electrode_range == 0..(ELECTRODES - 1)

\* The bounds of electrode i's row: start_idx + i*4096 .. start_idx + (i+1)*4096
row_lo(start, i) == start + i * SamplesPerElectrode

\* row_hi with the end of the range taken as included.
row_hi_inclusive(start, i) == start + (i + 1) * SamplesPerElectrode - 1

row_hi(start, i) == start + (i + 1) * SamplesPerElectrode

elec_data_panics(buffer, start) ==
    \E i \in electrode_range :
        ~slice_in_bounds(raw_len(buffer), row_lo(start, i), row_hi(start, i))

\* (0..32).map(|i| raw[..].to_vec()).collect(): row i is element i+1.
elec_data(buffer, start) ==
    [e \in 1..Cardinality(electrode_range) |->
        slice(buffer, row_lo(start, e - 1), row_hi(start, e - 1))]

\* The outcome of the Message::Binary arm before LiveData is built.
Decoded(kind, got, data) == [kind |-> kind, got |-> got, data |-> data]

\* lib.rs:189-205, from `raw` on.
decode_raw(buffer, mea_index) ==
    LET start == start_idx(raw_len(buffer), mea_index)
    IN  IF start = SizeMismatch THEN Decoded("size_error", raw_len(buffer), << >>)
        ELSE IF elec_data_panics(buffer, start) THEN Decoded("panic", 0, << >>)
        ELSE Decoded("ok", raw_len(buffer), elec_data(buffer, start))

\* The Message::Binary(buffer) arm up to the construction of LiveData.
decode(frame, mea_index) ==
    IF unwrap_panics(buffer_of(frame)) THEN Decoded("panic", 0, << >>)
    ELSE decode_raw(buffer_of(frame), mea_index)

\* ----------------------------------------------------------------- errors

Error(msg, got) == [msg |-> msg, got |-> got]

NoError       == Error("", 0)
E_InvalidId   == Error("MEA ID must be an integer in the range 1-4", 0)
E_Handshake   == Error("Invalid handshake response", 0)
E_Json        == Error("serde_json::Error", 0)
E_Transport   == Error("tungstenite::Error", 0)
E_PeerClosed  == Error("Server closed connection", 0)
E_Incomplete  == Error("Connection closed without receiving data", 0)
E_Size(got)   == Error("Unexpected data size", got)

\* validate_mea_id with the upper limit off by one.
validate_mea_id_upto5(id) == ~(id < 1 \/ id > 5)

\* validate_mea_id: TRUE for Ok(()), FALSE for the Err.
validate_mea_id(id) == ~(id < 1 \/ id > 4)

\* LiveData
LiveData(timestamp, data) == [timestamp |-> timestamp, data |-> data]

NoSample == LiveData(-1, << >>)

\* A Result: kind is "none" until the call returns.
Result(kind, value, error) == [kind |-> kind, value |-> value, error |-> error]

NoResult == Result("none", << >>, NoError)

\* ------------------------------------------------------------------ state

VARIABLES
    op,          \* the public method called: "none", "record_sample", "record_n_samples"
    mea_id,      \* its argument mea_id
    n,           \* the argument n of record_n_samples
    data,        \* record_n_samples: the Vec<LiveData> built so far
    ret,         \* what the call returned (kind "none" while it runs)
    pc,          \* the await record_sample is at, or how its session ended
    sent,        \* the texts this session's ws_stream.send() delivered, in order
    live_data,   \* record_sample: the LiveData it built
    err,         \* record_sample: the error it returned
    ended,       \* the stream has yielded None
    open_conns,  \* WebSocket connections currently held
    \* history of the environment
    nrecv,       \* frames this session took from the stream
    first,       \* the first frame this session took
    pings,       \* texts beginning with "2" taken by this session's receive loop
    last,        \* the last item this session took from the stream
    connects,    \* connect_async calls of this call
    closes,      \* ws_stream.close() calls of this session
    close_res,   \* how this session's ws_stream.close() ended: "none", "Ok", "Err"
    acquired     \* the binary frames this call decoded into a LiveData, in order

callVars    == << op, mea_id, n >>
sessionVars == << pc, sent, live_data, err, ended, open_conns >>
historyVars == << nrecv, first, pings, last, closes, close_res >>
vars == << op, mea_id, n, data, ret, pc, sent, live_data, err, ended, open_conns,
           nrecv, first, pings, last, connects, closes, close_res, acquired >>

Init ==
    /\ op = "none"
    /\ mea_id = 0
    /\ n = 0
    /\ data = << >>
    /\ ret = NoResult
    /\ pc = "idle"
    /\ sent = << >>
    /\ live_data = NoSample
    /\ err = NoError
    /\ ended = FALSE
    /\ open_conns = 0
    /\ nrecv = 0
    /\ first = NoFrame
    /\ pings = 0
    /\ last = NoFrame
    /\ connects = 0
    /\ closes = 0
    /\ close_res = "none"
    /\ acquired = << >>

\* A record_sample that goes on with what the session before it left: the
\* texts sent and the frames counted are kept.
StartSession_carried ==
    /\ pc' = "connect"
    /\ live_data' = NoSample
    /\ err' = NoError
    /\ ended' = FALSE
    /\ open_conns' = 0
    /\ closes' = 0
    /\ close_res' = "none"
    /\ UNCHANGED << sent, nrecv, first, pings, last >>

\* record_sample up to its first await: validate_mea_id passed, Url::parse of
\* the constant MEA_SERVER_URL succeeds, connect_async is pending.
StartSession ==
    /\ pc' = "connect"
    /\ sent' = << >>
    /\ live_data' = NoSample
    /\ err' = NoError
    /\ ended' = FALSE
    /\ open_conns' = 0
    /\ nrecv' = 0
    /\ first' = NoFrame
    /\ pings' = 0
    /\ last' = NoFrame
    /\ closes' = 0
    /\ close_res' = "none"

\* record_sample returns Err(e): ws_stream is dropped with the frame.
Fail(e) ==
    /\ pc' = "Failed"
    /\ err' = e
    /\ open_conns' = 0

\* ---------------------------------------------------------------- actions

\* mea.record_sample(id) is called.
CallRecordSample ==
    /\ op = "none"
    /\ \E id \in 0..MaxMeaId :
        /\ op' = "record_sample"
        /\ mea_id' = id
        /\ IF validate_mea_id(id)
           THEN StartSession /\ UNCHANGED ret
           ELSE /\ ret' = Result("Err", << >>, E_InvalidId)
                /\ UNCHANGED << sessionVars, historyVars >>
    /\ UNCHANGED << n, data, connects, acquired >>

\* A record_n_samples whose loop tests its count after the body: the first
\* session is started whatever count is.
CallRecordNSamples_bodyFirst ==
    /\ op = "none"
    /\ \E id \in 0..MaxMeaId, count \in 0..MaxN :
        /\ op' = "record_n_samples"
        /\ mea_id' = id
        /\ n' = count
        /\ IF ~validate_mea_id(id)
           THEN /\ ret' = Result("Err", << >>, E_InvalidId)
                /\ UNCHANGED << sessionVars, historyVars >>
           ELSE StartSession /\ UNCHANGED ret
    /\ UNCHANGED << data, connects, acquired >>

\* mea.record_n_samples(id, count) is called: validate, Vec::with_capacity,
\* and the first iteration of the loop up to its first await.
CallRecordNSamples ==
    /\ op = "none"
    /\ \E id \in 0..MaxMeaId, count \in 0..MaxN :
        /\ op' = "record_n_samples"
        /\ mea_id' = id
        /\ n' = count
        /\ IF ~validate_mea_id(id)
           THEN /\ ret' = Result("Err", << >>, E_InvalidId)
                /\ UNCHANGED << sessionVars, historyVars >>
           ELSE IF count = 0
                THEN /\ ret' = Result("Ok", << >>, NoError)
                     /\ UNCHANGED << sessionVars, historyVars >>
                ELSE StartSession /\ UNCHANGED ret
    /\ UNCHANGED << data, connects, acquired >>

\* connect_async(url).await?
Connect ==
    /\ pc = "connect"
    /\ connects' = connects + 1
    /\ \E ok \in BOOLEAN :
        IF ok THEN /\ pc' = "hs_recv"
                   /\ open_conns' = open_conns + 1
                   /\ UNCHANGED err
              ELSE Fail(E_Transport)
    /\ UNCHANGED << callVars, data, ret, sent, live_data, ended, historyVars, acquired >>

\* if let Some(msg) = ws_stream.next().await { match msg? { .. } }
HandshakeRecv ==
    /\ pc = "hs_recv"
    /\ \E item \in StreamItems :
        /\ item \in Frames => nrecv < MaxFrames
        /\ nrecv' = IF item \in Frames THEN nrecv + 1 ELSE nrecv
        /\ first' = IF item \in Frames THEN item ELSE first
        /\ last' = item
        /\ ended' = (item = StreamEnd)
        /\ CASE item = StreamEnd -> pc' = "loop_recv" /\ UNCHANGED << err, open_conns >>
             [] item = StreamErr -> Fail(E_Transport)
             [] item.type = "Text" ->
                    IF is_open_packet(item.text)
                    THEN IF handshake_parses(Tail1(item.text))
                         THEN pc' = "hs_send40" /\ UNCHANGED << err, open_conns >>
                         ELSE Fail(E_Json)
                    ELSE pc' = "loop_recv" /\ UNCHANGED << err, open_conns >>
             [] OTHER -> Fail(E_Handshake)
    /\ UNCHANGED << callVars, data, ret, sent, live_data, pings, connects, closes,
                    close_res, acquired >>

\* ws_stream.send(Message::Text("40".to_string())).await?
SendConnect ==
    /\ pc = "hs_send40"
    /\ \E ok \in BOOLEAN :
        IF ok THEN /\ sent' = Append(sent, connect_msg)
                   /\ pc' = "hs_sendmea"
                   /\ UNCHANGED << err, open_conns >>
              ELSE Fail(E_Transport) /\ UNCHANGED sent
    /\ UNCHANGED << callVars, data, ret, live_data, ended, historyVars, connects, acquired >>

\* ws_stream.send(Message::Text(mea_msg)).await?
SendMeaId ==
    /\ pc = "hs_sendmea"
    /\ \E ok \in BOOLEAN :
        IF ok THEN /\ sent' = Append(sent, mea_msg(mea_index_of(mea_id)))
                   /\ pc' = "loop_recv"
                   /\ UNCHANGED << err, open_conns >>
              ELSE Fail(E_Transport) /\ UNCHANGED sent
    /\ UNCHANGED << callVars, data, ret, live_data, ended, historyVars, connects, acquired >>

\* chrono::Utc::now(): a logical clock that ticks with every connection, so
\* that the LiveData of two sessions of a call bear different instants.
utc_now == connects

\* A Message::Binary arm whose block depends on the frames that came before:
\* every ping taken moves the block read one MEA further.
OnBinary_shifted(frame) ==
    \E d \in { decode(frame, (mea_index_of(mea_id) + pings) % 4) } :
        CASE d.kind = "panic" ->
                /\ pc' = "Panicked"
                /\ open_conns' = 0
                /\ UNCHANGED << live_data, err, acquired >>
          [] d.kind = "size_error" ->
                /\ Fail(E_Size(d.got))
                /\ UNCHANGED << live_data, acquired >>
          [] d.kind = "ok" ->
                /\ live_data' = LiveData(utc_now, d.data)
                /\ pc' = "close"
                /\ acquired' = Append(acquired, frame)
                /\ UNCHANGED << err, open_conns >>

\* The Message::Binary arm: decode, stamp, and go on to close the stream.
OnBinary(frame) ==
    \E d \in { decode(frame, mea_index_of(mea_id)) } :
        CASE d.kind = "panic" ->
                /\ pc' = "Panicked"
                /\ open_conns' = 0
                /\ UNCHANGED << live_data, err, acquired >>
          [] d.kind = "size_error" ->
                /\ Fail(E_Size(d.got))
                /\ UNCHANGED << live_data, acquired >>
          [] d.kind = "ok" ->
                /\ live_data' = LiveData(utc_now, d.data)
                /\ pc' = "close"
                /\ acquired' = Append(acquired, frame)
                /\ UNCHANGED << err, open_conns >>

\* A Message::Text arm that answers every text, not only those beginning
\* with "2".
OnText_answerAll(text) ==
    /\ pc' = "loop_pong"
    /\ UNCHANGED << live_data, err, open_conns, acquired >>

\* The Message::Text arm of the receive loop.
OnText(text) ==
    /\ IF is_ping(text) THEN pc' = "loop_pong" ELSE pc' = "loop_recv"
    /\ UNCHANGED << live_data, err, open_conns, acquired >>

\* The Close arm missing: a close frame falls to `_ => continue`.
OnClose_ignored == UNCHANGED << pc, live_data, err, open_conns, acquired >>

\* Message::Close(_) => return Err("Server closed connection".into())
OnClose ==
    /\ Fail(E_PeerClosed)
    /\ UNCHANGED << live_data, acquired >>

\* _ => continue
OnOther == UNCHANGED << pc, live_data, err, open_conns, acquired >>

\* The stream ending taken for a peer's close frame.
OnStreamEnd_asClose ==
    /\ Fail(E_PeerClosed)
    /\ UNCHANGED << live_data, acquired >>

\* The loop ends on None: Err("Connection closed without receiving data".into())
OnStreamEnd ==
    /\ Fail(E_Incomplete)
    /\ UNCHANGED << live_data, acquired >>

\* A receive error swallowed: the loop goes on to the next frame.
OnStreamErr_skipped == UNCHANGED << pc, live_data, err, open_conns, acquired >>

\* match msg? { .. }: an Err item returns from record_sample through `?`.
OnStreamErr ==
    /\ Fail(E_Transport)
    /\ UNCHANGED << live_data, acquired >>

\* while let Some(msg) = ws_stream.next().await { match msg? { .. } }
\* and the Err after the loop.
LoopRecv ==
    /\ pc = "loop_recv"
    /\ \E item \in StreamItems :
        /\ ended => item = StreamEnd
        /\ item \in Frames => nrecv < MaxFrames
        /\ nrecv' = IF item \in Frames THEN nrecv + 1 ELSE nrecv
        /\ last' = item
        /\ pings' = IF item.type = "Text" /\ StartsWith(item.text, "2")
                    THEN pings + 1 ELSE pings
        /\ CASE item = StreamEnd -> OnStreamEnd
             [] item = StreamErr -> OnStreamErr
             [] item.type = "Text" -> OnText(item.text)
             [] item.type = "Binary" -> OnBinary(item)
             [] item.type = "Close" -> OnClose
             [] OTHER -> OnOther
    /\ UNCHANGED << callVars, data, ret, sent, ended, first, connects, closes,
                    close_res >>

\* ws_stream.send(Message::Text("3".to_string())).await?
SendPong ==
    /\ pc = "loop_pong"
    /\ \E ok \in BOOLEAN :
        IF ok THEN /\ sent' = Append(sent, pong_msg)
                   /\ pc' = "loop_recv"
                   /\ UNCHANGED << err, open_conns >>
              ELSE Fail(E_Transport) /\ UNCHANGED sent
    /\ UNCHANGED << callVars, data, ret, live_data, ended, historyVars, connects, acquired >>

\* A close whose failure is returned: ws_stream.close(None).await?
CloseStream_checked ==
    /\ pc = "close"
    /\ closes' = closes + 1
    /\ \E res \in { "Ok", "Err" } :
        /\ close_res' = res
        /\ IF res = "Ok" THEN pc' = "Done" /\ open_conns' = 0 /\ UNCHANGED err
           ELSE Fail(E_Transport)
    /\ UNCHANGED << callVars, data, ret, sent, live_data, ended, nrecv, first,
                    pings, last, connects, acquired >>

\* let _ = ws_stream.close(None).await; return Ok(live_data);
\* The Result of close is discarded; ws_stream is dropped on return.
CloseStream ==
    /\ pc = "close"
    /\ closes' = closes + 1
    /\ \E res \in { "Ok", "Err" } : close_res' = res
    /\ pc' = "Done"
    /\ open_conns' = 0
    /\ UNCHANGED << callVars, data, ret, sent, live_data, err, ended, nrecv, first,
                    pings, last, connects, acquired >>

\* record_sample, called directly, hands its Result to the caller.
ReturnSample ==
    /\ op = "record_sample"
    /\ ret.kind = "none"
    /\ pc \in { "Done", "Failed" }
    /\ ret' = IF pc = "Done" THEN Result("Ok", live_data, NoError)
              ELSE Result("Err", << >>, err)
    /\ UNCHANGED << callVars, data, sessionVars, historyVars, connects, acquired >>

\* record_n_samples: `let sample = self.record_sample(mea_id).await?` returned
\* Ok; data.push(sample); the loop goes on or the call returns Ok(data).
PushSample ==
    /\ op = "record_n_samples"
    /\ ret.kind = "none"
    /\ pc = "Done"
    /\ data' = Append(data, live_data)
    /\ IF Len(data) + 1 < n
       THEN StartSession /\ UNCHANGED ret
       ELSE /\ ret' = Result("Ok", data', NoError)
            /\ UNCHANGED << sessionVars, historyVars >>
    /\ UNCHANGED << callVars, connects, acquired >>

\* record_n_samples breaking out of the loop on an error and returning the
\* samples it has.
PropagateError_partial ==
    /\ op = "record_n_samples"
    /\ ret.kind = "none"
    /\ pc = "Failed"
    /\ ret' = Result("Ok", data, NoError)
    /\ UNCHANGED << callVars, data, sessionVars, historyVars, connects, acquired >>

\* record_n_samples: the `?` on a failed record_sample returns its error;
\* data is dropped.
PropagateError ==
    /\ op = "record_n_samples"
    /\ ret.kind = "none"
    /\ pc = "Failed"
    /\ ret' = Result("Err", << >>, err)
    /\ data' = << >>
    /\ UNCHANGED << callVars, sessionVars, historyVars, connects, acquired >>

Next ==
    \/ CallRecordSample
    \/ CallRecordNSamples
    \/ Connect
    \/ HandshakeRecv
    \/ SendConnect
    \/ SendMeaId
    \/ LoopRecv
    \/ SendPong
    \/ CloseStream
    \/ ReturnSample
    \/ PushSample
    \/ PropagateError

Spec == Init /\ [][Next]_vars

\* ----------------------------------------------------------------- claims

\* The session states of the specification, read off pc.
AwaitingPayload == pc \in { "loop_recv", "loop_pong" }
PayloadDecoded == pc \in { "close", "Done" }

\* Reading r (from 0) of a payload, from its bytes.
ReadingAt(frame, r) ==
    PayloadByte(frame.tag, 4 * r) + 256 * PayloadByte(frame.tag, 4 * r + 1)
        + 65536 * PayloadByte(frame.tag, 4 * r + 2)
        + 16777216 * PayloadByte(frame.tag, 4 * r + 3)

\* Readings [lo, lo + SamplesPerElectrode) of a payload, in order.
ReadingsFrom(frame, lo) == [k \in 1..SamplesPerElectrode |-> ReadingAt(frame, lo + k - 1)]

\* The 32 rows of the block of a payload that starts at reading `base`.
BlockAt(frame, base) ==
    [e \in 1..32 |-> ReadingsFrom(frame, base + (e - 1) * SamplesPerElectrode)]

\* The channel data the specification assigns to a payload and a selector.
ExpectedData(frame, s) ==
    IF frame.nbytes = 4 * 32 * SamplesPerElectrode THEN BlockAt(frame, 0)
    ELSE BlockAt(frame, (s - 1) * 32 * SamplesPerElectrode)

\* The number of elements of a sequence equal to x.
Count(seq, x) == Cardinality({ k \in DOMAIN seq : seq[k] = x })

\* 42["meaid",<selector - 1>] spelled out for the selectors 1..4.
SelectionText(s) ==
    << "4", "2", "[", "\"", "m", "e", "a", "i", "d", "\"", ",",
       CASE s = 1 -> "0" [] s = 2 -> "1" [] s = 3 -> "2" [] s = 4 -> "3" [] OTHER -> "?",
       "]" >>

FirstIsOpenText == first.type = "Text" /\ Len(first.text) >= 1 /\ first.text[1] = "0"

LastIsPingText == last.type = "Text" /\ Len(last.text) >= 1 /\ last.text[1] = "2"

\* The receive loop has just taken a binary frame: the payload.  (The first
\* frame of a session is taken by the handshake, every later one by the loop.)
PayloadTaken == last.type = "Binary" /\ nrecv >= 2

\* C1: a session whose first frame is anything but a text beginning with "0"
\* ends Failed with "Invalid handshake response": it never waits for a
\* payload and never builds or returns a LiveData.
C1_FirstFrameMustBeOpen ==
    (nrecv >= 1 /\ ~FirstIsOpenText) =>
        /\ pc = "Failed"
        /\ err = E_Handshake
        /\ live_data = NoSample
        /\ ret.kind # "Ok"

\* C2: a call with mea_id in 1..4 never yields the invalid-id error; a call
\* with any other mea_id has returned it with no connection attempted, none
\* open, no frame sent and no session started.
C2_InvalidSelector ==
    op # "none" =>
        /\ mea_id \in 1..4 => (ret.error # E_InvalidId /\ err # E_InvalidId)
        /\ mea_id \notin 1..4 =>
              /\ ret.kind = "Err"
              /\ ret.error = E_InvalidId
              /\ connects = 0
              /\ open_conns = 0
              /\ sent = << >>
              /\ nrecv = 0
              /\ pc = "idle"

C2_Witness ==
    /\ op = "record_n_samples"
    /\ mea_id = 5
    /\ n = 2
    /\ ret.kind = "Err"
    /\ ret.error = E_InvalidId
    /\ connects = 0

\* C3: after an open packet, "40" and then 42["meaid",mea_id-1] have been sent,
\* in that order, before the session takes a further frame; each is sent at
\* most once, whatever text arrives later; a session whose first frame was no
\* open packet sends neither.
C3_HandshakeReply ==
    /\ (FirstIsOpenText /\ (AwaitingPayload \/ PayloadDecoded \/ nrecv >= 2)) =>
          /\ Len(sent) >= 2
          /\ sent[1] = << "4", "0" >>
          /\ sent[2] = SelectionText(mea_id)
    /\ Count(sent, << "4", "0" >>) >= 1 => (FirstIsOpenText /\ sent[1] = << "4", "0" >>)
    /\ Count(sent, SelectionText(mea_id)) >= 1 =>
          (FirstIsOpenText /\ Len(sent) >= 2 /\ sent[2] = SelectionText(mea_id))
    /\ Count(sent, << "4", "0" >>) <= 1
    /\ Count(sent, SelectionText(mea_id)) <= 1
    /\ pc = "hs_sendmea" => (sent = << << "4", "0" >> >> /\ nrecv = 1)
    /\ pc = "hs_send40" => (sent = << >> /\ nrecv = 1)

C3_Witness ==
    /\ mea_id = 3
    /\ first = Item("Text", T_open, 0, 0)
    /\ nrecv = 2
    /\ last = Item("Text", T_open, 0, 0)
    /\ pc = "loop_recv"
    /\ sent = << << "4", "0" >>, SelectionText(3) >>

\* C4: while the session waits for the payload, and when it has decoded it,
\* the "3" texts sent are as many as the texts beginning with "2" taken by
\* the receive loop; a ping just taken is owed exactly one "3", which is sent
\* before the next frame is taken, and the session goes on waiting.
C4_PingPong ==
    /\ (pc = "loop_recv" \/ PayloadDecoded) => Count(sent, << "3" >>) = pings
    /\ pc = "loop_pong" => (LastIsPingText /\ Count(sent, << "3" >>) = pings - 1)
    /\ Count(sent, << "3" >>) <= pings
    /\ (LastIsPingText /\ nrecv >= 2) =>
          \/ pc = "loop_pong"
          \/ pc = "loop_recv" /\ sent[Len(sent)] = << "3" >>
          \/ pc = "Failed" /\ err = E_Transport
    /\ (PayloadDecoded /\ pings = 0) => \A k \in DOMAIN sent : sent[k] # << "3" >>

C4_Witness ==
    /\ pc = "Done"
    /\ pings = 2
    /\ nrecv = 4
    /\ FirstIsOpenText
    /\ Len(sent) = 4
    /\ sent[3] = << "3" >>
    /\ sent[4] = << "3" >>

\* C5: a payload of 128 * SamplesPerElectrode readings is decoded, for every
\* mea_id in 1..4, into the 32 rows that start at reading
\* (mea_id - 1) * 32 * SamplesPerElectrode; no read falls outside the payload
\* (nothing panics), and the blocks of two selectors do not overlap.
C5_FullLayout ==
    /\ (PayloadTaken /\ last.nbytes = 4 * 128 * SamplesPerElectrode) =>
          /\ PayloadDecoded
          /\ mea_id \in 1..4
          /\ live_data.data = BlockAt(last, (mea_id - 1) * 32 * SamplesPerElectrode)
          /\ (mea_id - 1) * 32 * SamplesPerElectrode + 32 * SamplesPerElectrode
                <= 128 * SamplesPerElectrode
    /\ \A s1, s2 \in 1..4 :
          s1 < s2 =>
              row_hi(start_idx(128 * SamplesPerElectrode, mea_index_of(s1)), 31)
                  <= row_lo(start_idx(128 * SamplesPerElectrode, mea_index_of(s2)), 0)

C5_Witness ==
    /\ pc = "Done"
    /\ mea_id = 4
    /\ last = Item("Binary", << >>, 1, FullBytes)
    /\ live_data.data[32][SamplesPerElectrode] = ReadingAt(last, 128 * SamplesPerElectrode - 1)

\* C6: a payload of 32 * SamplesPerElectrode readings is decoded into its
\* readings cut in 32 rows, in order, the same for every mea_id in 1..4.
C6_SingleLayout ==
    (PayloadTaken /\ last.nbytes = 4 * 32 * SamplesPerElectrode) =>
        /\ PayloadDecoded
        /\ live_data.data = BlockAt(last, 0)

C6_Witness ==
    /\ pc = "Done"
    /\ mea_id = 4
    /\ last = Item("Binary", << >>, 1, SingleBytes)
    /\ live_data.data[1][1] = ReadingAt(last, 0)

\* C7: a payload of whole readings, taken by the receive loop, whose count is neither
\* 32 * SamplesPerElectrode nor 128 * SamplesPerElectrode ends the session
\* Failed with "Unexpected data size" naming the count; no LiveData is built
\* or returned and no further frame is taken.
C7_PayloadSize ==
    (/\ PayloadTaken
     /\ last.nbytes % 4 = 0
     /\ last.nbytes \div 4 \notin { 32 * SamplesPerElectrode, 128 * SamplesPerElectrode }) =>
        /\ pc = "Failed"
        /\ err = E_Size(last.nbytes \div 4)
        /\ live_data = NoSample
        /\ ret.kind # "Ok"
        /\ ret.kind = "Err" => ret.error = err

C7_Witness ==
    /\ pc = "Failed"
    /\ PayloadTaken
    /\ err = E_Size(32 * SamplesPerElectrode + 1)
    /\ ret.kind = "Err"

\* C8: record_n_samples returns Ok exactly when n sessions have decoded a
\* payload, with n samples, the k-th being the decoding of the k-th payload;
\* when a session fails it returns that session's error and no sample, and no
\* session was started after the failed one.
C8_RecordN ==
    (op = "record_n_samples" /\ ret.kind # "none" /\ mea_id \in 1..4) =>
        /\ ret.kind = "Ok" =>
              /\ Len(ret.value) = n
              /\ Len(acquired) = n
              /\ connects = n
              /\ \A k \in 1..n :
                    /\ ret.value[k].data = ExpectedData(acquired[k], mea_id)
                    /\ ret.value[k].timestamp = k
        /\ ret.kind = "Err" =>
              /\ ret.value = << >>
              /\ pc = "Failed"
              /\ ret.error = err
              /\ Len(acquired) < n
              /\ connects = Len(acquired) + 1

C8_Witness ==
    /\ op = "record_n_samples"
    /\ n = 2
    /\ ret.kind = "Ok"
    /\ Len(ret.value) = 2
    /\ acquired[1].tag = 1
    /\ acquired[2].tag = 0
    /\ ret.value[1].data # ret.value[2].data

\* C9: every LiveData built or returned has exactly 32 rows of exactly
\* SamplesPerElectrode readings each.
WellShaped(sample) ==
    /\ Len(sample.data) = 32
    /\ \A e \in 1..32 : Len(sample.data[e]) = SamplesPerElectrode

C9_SampleShape ==
    /\ live_data # NoSample => WellShaped(live_data)
    /\ \A k \in DOMAIN data : WellShaped(data[k])
    /\ (ret.kind = "Ok" /\ op = "record_sample") => WellShaped(ret.value)
    /\ (ret.kind = "Ok" /\ op = "record_n_samples") =>
          \A k \in DOMAIN ret.value : WellShaped(ret.value[k])

C9_Witness ==
    /\ op = "record_sample"
    /\ ret.kind = "Ok"
    /\ last.nbytes = FullBytes
    /\ Len(ret.value.data) = 32

\* C10, as stated: a close frame taken at any point before a payload, the
\* first frame included, ends the session with "Server closed connection".
C10_Original ==
    last = CloseFrame =>
        /\ pc = "Failed"
        /\ err = E_PeerClosed
        /\ live_data = NoSample

\* C10, amended: a close frame taken after the first frame and before a
\* payload ends the session Failed with "Server closed connection"; taken as
\* the first frame it ends it Failed with "Invalid handshake response"; no
\* LiveData either way.
C10_CloseFrame ==
    last = CloseFrame =>
        /\ pc = "Failed"
        /\ nrecv >= 2 => err = E_PeerClosed
        /\ nrecv = 1 => err = E_Handshake
        /\ live_data = NoSample
        /\ ret.kind # "Ok"

C10_Witness ==
    /\ last = CloseFrame
    /\ nrecv = 3
    /\ FirstIsOpenText
    /\ pings = 1
    /\ pc = "Failed"
    /\ err = E_PeerClosed

\* C11: when the stream ends before any payload was decoded, the session ends
\* Failed with "Connection closed without receiving data" and builds and
\* returns no LiveData, whether the stream ended before the first frame or
\* after the handshake, pings and ignored frames; a stream that ended at the
\* handshake's read is found ended by the receive loop's very next step.
C11_Incomplete ==
    [][ /\ last' = StreamEnd =>
              \/ /\ pc' = "Failed"
                 /\ err' = E_Incomplete
                 /\ live_data' = NoSample
                 /\ ret'.kind # "Ok"
                 /\ ret'.kind = "Err" => ret'.error = E_Incomplete
                 /\ closes' = 0
              \/ /\ pc' = "loop_recv"
                 /\ ended'
                 /\ nrecv' = 0
                 /\ sent' = << >>
                 /\ live_data' = NoSample
        /\ (last = StreamEnd /\ pc = "loop_recv") =>
              (pc' = "Failed" /\ err' = E_Incomplete /\ last' = StreamEnd)
      ]_vars

C11_Witness ==
    /\ last = StreamEnd
    /\ pc = "Failed"
    /\ err = E_Incomplete
    /\ FirstIsOpenText
    /\ nrecv = 3
    /\ pings = 1
    /\ ret.kind = "Err"

\* The k-th LiveData of a record_n_samples call: pushed, or still held by the
\* session that built it.
SampleOf(k) == IF k <= Len(data) THEN data[k] ELSE live_data

\* C12: the channel data of a LiveData is determined by the payload and
\* mea_id alone: it is the same function of the two whatever the session
\* took or sent before the payload, and two sessions of a call that took the
\* same payload hold the same channel data, under different timestamps.
C12_DecodeFunction ==
    /\ PayloadDecoded =>
          /\ last.type = "Binary"
          /\ live_data.data = ExpectedData(last, mea_id)
    /\ (op = "record_n_samples" /\ ret.kind = "none" /\ Len(acquired) >= 1) =>
          \A i, j \in DOMAIN acquired :
              /\ acquired[i] = acquired[j] => SampleOf(i).data = SampleOf(j).data
              /\ i # j => SampleOf(i).timestamp # SampleOf(j).timestamp

C12_Witness ==
    /\ op = "record_n_samples"
    /\ mea_id = 2
    /\ Len(data) = 1
    /\ pc = "Done"
    /\ Len(acquired) = 2
    /\ acquired[1] = acquired[2]
    /\ acquired[1].nbytes = FullBytes
    /\ nrecv = 4
    /\ pings = 1
    /\ Count(sent, << "3" >>) = 1
    /\ data[1].data = live_data.data
    /\ data[1].timestamp # live_data.timestamp

\* C13: a session that has decoded a payload, and a session that has sent a
\* "3", sent "40" and then 42["meaid",mea_id-1] first, having taken an open
\* packet as its first frame.
C13_DoneOnlyAfterHandshake ==
    /\ PayloadDecoded =>
          /\ FirstIsOpenText
          /\ Len(sent) >= 2
          /\ sent[1] = << "4", "0" >>
          /\ sent[2] = SelectionText(mea_id)
    /\ Count(sent, << "3" >>) >= 1 =>
          /\ Len(sent) >= 3
          /\ sent[1] = << "4", "0" >>
          /\ sent[2] = SelectionText(mea_id)

\* C14: a binary frame taken by the receive loop whose byte length is no
\* multiple of 4 ends the session Failed with an error for the caller; the
\* session never panics and builds no LiveData.
C14_NoPanic ==
    /\ pc # "Panicked"
    /\ (PayloadTaken /\ last.nbytes % 4 # 0) =>
          /\ pc = "Failed"
          /\ err # NoError
          /\ live_data = NoSample

\* The step in which the receive loop takes a text that does not begin with "2".
IgnoredTextStep ==
    /\ pc = "loop_recv"
    /\ nrecv' = nrecv + 1
    /\ last'.type = "Text"
    /\ ~(Len(last'.text) >= 1 /\ last'.text[1] = "2")

\* C15: the receive loop taking a text that does not begin with "2" leaves
\* the program where it was: nothing is sent, the session is at the loop's
\* read again, and no variable of the call or the session changes, so that
\* whatever follows is what would have followed without that frame.
C15_IgnoredText ==
    [][ IgnoredTextStep =>
            /\ pc' = "loop_recv"
            /\ sent' = sent
            /\ UNCHANGED << callVars, data, ret, sessionVars >>
            /\ UNCHANGED << first, pings, closes, connects, acquired >>
      ]_vars

C15_Witness ==
    /\ last = Item("Text", T_connAck, 0, 0)
    /\ nrecv = 3
    /\ pings = 1
    /\ pc = "loop_recv"
    /\ FirstIsOpenText
    /\ sent = << << "4", "0" >>, SelectionText(mea_id), << "3" >> >>

\* What C16 says of a state: close is called once, by a session that holds
\* its decoded LiveData, and whatever close returns the session is Done and
\* the LiveData is what the caller gets; a session that failed called no close.
CloseDiscipline ==
    /\ closes <= 1
    /\ closes = 1 <=> pc = "Done"
    /\ close_res # "none" <=> closes = 1
    /\ pc \in { "close", "Done" } =>
          /\ live_data # NoSample
          /\ live_data.data = ExpectedData(last, mea_id)
          /\ err = NoError
    /\ pc \in { "Failed", "Panicked" } => (closes = 0 /\ close_res = "none")
    /\ (op = "record_sample" /\ ret.kind # "none" /\ closes = 1) =>
          (ret.kind = "Ok" /\ ret.value = live_data)
    /\ (op = "record_sample" /\ ret.kind = "Err") => closes = 0

\* C16: a successful session calls close exactly once, when its LiveData is
\* decoded, and returns the LiveData whether close returned Ok or Err; a
\* failed session calls no close, and once it has failed it sends nothing,
\* takes no frame and stays failed.
C16_CloseOnce ==
    [][ /\ CloseDiscipline'
        /\ closes' > closes =>
              (pc = "close" /\ closes = 0 /\ pc' = "Done" /\ live_data' = live_data
                 /\ sent' = sent)
        /\ pc = "Failed" =>
              /\ pc' = "Failed"
              /\ sent' = sent
              /\ closes' = closes
              /\ nrecv' = nrecv
              /\ connects' = connects
      ]_vars

C16_Witness ==
    /\ op = "record_sample"
    /\ pc = "Done"
    /\ closes = 1
    /\ close_res = "Err"
    /\ ret.kind = "Ok"
    /\ ret.value = live_data
    /\ FirstIsOpenText

\* The steps in which the transport fails: a connect that opens no
\* connection, a read that yields an error, a send that delivers nothing.
ConnectFailsStep == pc = "connect" /\ connects' = connects + 1 /\ pc' # "hs_recv"

ReceiveFailsStep == pc \in { "hs_recv", "loop_recv" } /\ last' = StreamErr

SendFailsStep == pc \in { "hs_send40", "hs_sendmea", "loop_pong" } /\ sent' = sent

\* C17: a failed connect, a failed read (at the handshake or in the receive
\* loop) and a failed send of "40", of the meaid request or of "3" each end
\* the session Failed with the transport's error in that very step; the
\* session then connects, reads and sends no more, and no LiveData is built
\* or returned.
C17_TransportFailure ==
    [][ /\ (ConnectFailsStep \/ ReceiveFailsStep \/ SendFailsStep) =>
              /\ pc' = "Failed"
              /\ err' = E_Transport
              /\ open_conns' = 0
              /\ UNCHANGED << sent, nrecv, live_data >>
        /\ err' = E_Transport =>
              /\ pc' = "Failed"
              /\ live_data' = NoSample
              /\ closes' = 0
              /\ ret'.kind # "Ok"
              /\ ret'.kind = "Err" => (ret'.error = E_Transport /\ ret'.value = << >>)
        /\ (pc = "Failed" /\ err = E_Transport) =>
              /\ UNCHANGED << pc, err, sent, nrecv, last, connects, live_data, open_conns >>
      ]_vars

C17_Witness ==
    /\ last = StreamErr
    /\ pc = "Failed"
    /\ err = E_Transport
    /\ FirstIsOpenText
    /\ nrecv = 2
    /\ pings = 1
    /\ Len(sent) = 3
    /\ connects = 1
    /\ ret.kind = "Err"

\* A session at its start: nothing sent, taken, built or held.
FreshSession ==
    /\ sent = << >>
    /\ nrecv = 0
    /\ first = NoFrame
    /\ last = NoFrame
    /\ pings = 0
    /\ closes = 0
    /\ live_data = NoSample
    /\ err = NoError
    /\ ~ended
    /\ open_conns = 0

\* C18: in a record_n_samples call at most one connection is held at any
\* time; a session connects only when every session before it has ended Done
\* with its LiveData pushed and its connection gone; and every session
\* starts at connect with nothing sent or taken, and sends its own "40" and
\* meaid request after its own open packet.
C18_Sequential ==
    [][ /\ open_conns' <= 1
        /\ (op' = "record_n_samples" /\ ret'.kind = "none") =>
              /\ pc' = "connect" => (FreshSession' /\ connects' = Len(data'))
              /\ pc' \notin { "connect", "idle" } => connects' = Len(data') + 1
              /\ Len(data') < n'
              /\ Len(acquired') \in { Len(data'), Len(data') + 1 }
        /\ connects' > connects =>
              /\ pc = "connect"
              /\ FreshSession
              /\ connects = Len(data)
              /\ connects' = connects + 1
        /\ (op = "record_n_samples" /\ Len(data') > Len(data)) =>
              /\ pc = "Done"
              /\ open_conns = 0
              /\ data' = Append(data, live_data)
              /\ ret'.kind = "none" => (pc' = "connect" /\ FreshSession')
        /\ (pc' \in { "loop_recv", "loop_pong", "close", "Done" } /\ FirstIsOpenText') =>
              /\ Len(sent') >= 2
              /\ sent'[1] = connect_msg
              /\ sent'[2] = mea_msg(mea_index_of(mea_id'))
      ]_vars

C18_Witness ==
    /\ op = "record_n_samples"
    /\ n = 2
    /\ Len(data) = 1
    /\ connects = 2
    /\ open_conns = 1
    /\ pc = "loop_recv"
    /\ nrecv = 1
    /\ FirstIsOpenText
    /\ sent = << << "4", "0" >>, SelectionText(mea_id) >>

\* The step in which a session takes a binary frame, a close frame, a
\* receive error or the end of the stream.
EndingItemStep ==
    /\ pc \in { "hs_recv", "loop_recv" }
    /\ last' \in BinaryFrames \cup { CloseFrame, StreamErr, StreamEnd }
    /\ (nrecv' = nrecv + 1 \/ last' \in { StreamErr, StreamEnd })

\* C19: the step in which a session takes a binary frame, a close frame, a
\* receive error or the end of the stream is its last read: it leaves the
\* session Failed, or with its LiveData decoded and only the close before
\* Done (or, the stream having ended at the handshake's read, at the read
\* that finds it ended and fails); only text and control frames keep the
\* session reading.
C19_Terminates ==
    [][ /\ EndingItemStep =>
              \/ pc' = "Failed"
              \/ pc' = "close" /\ live_data' # NoSample
              \/ pc = "hs_recv" /\ last' = StreamEnd /\ pc' = "loop_recv" /\ ended'
        /\ (pc = "loop_recv" /\ ended) => pc' = "Failed"
        /\ pc = "close" => pc' = "Done"
        /\ (pc \in { "hs_recv", "loop_recv" } /\ pc' \in { "loop_recv", "loop_pong", "hs_send40" }
               /\ ~ended') =>
              last'.type \in { "Text", "Ping", "Pong" }
      ]_vars

\* C20: record_n_samples called with n = 0 has returned at once, with no
\* connection attempted or held, no session started and nothing sent:
\* Ok with the empty Vec for mea_id in 1..4, the invalid-id error otherwise.
C20_ZeroSamples ==
    (op = "record_n_samples" /\ n = 0) =>
        /\ connects = 0
        /\ open_conns = 0
        /\ pc = "idle"
        /\ sent = << >>
        /\ nrecv = 0
        /\ data = << >>
        /\ mea_id \in 1..4 => ret = Result("Ok", << >>, NoError)
        /\ mea_id \notin 1..4 => ret = Result("Err", << >>, E_InvalidId)

C20_Witness ==
    /\ op = "record_n_samples"
    /\ n = 0
    /\ mea_id = 4
    /\ ret.kind = "Ok"
    /\ ret.value = << >>
    /\ connects = 0

=============================================================================
